---- MODULE Spec2Model ----
(***************************************************************************)
(* Model of the TREC inspection report generator (helper.py) and of the    *)
(* HTTP layer in front of it (server.py).                                  *)
(*                                                                         *)
(* Python values are modelled as follows.  A dict is a function whose      *)
(* domain is the set of keys present, so dict.get(k, default) is Get.      *)
(* A str that the code inspects character by character (upper(), chr())    *)
(* is a sequence of characters; a str that is only compared or copied is   *)
(* a TLA+ string.  A list is a sequence.                                   *)
(***************************************************************************)
EXTENDS Integers, Sequences, FiniteSets, TLC

VARIABLES
    \* get_inspection_status / CheckboxMarker
    line_item,      \* the dict handed to get_inspection_status
    status,         \* its return value, the CheckboxMarker's self.status
    marker_ops,     \* canvas operations issued by CheckboxMarker.draw
    spc             \* position: "start", "derived", "drawn"

varsStatus == <<line_item, status, marker_ops, spc>>

VARIABLES
    \* convert_to_letter
    letter_in,      \* the argument num
    letter_out,     \* the label returned, a sequence of character codes
    lpc             \* position: "start", "done"

varsLetter == <<letter_in, letter_out, lpc>>

VARIABLES
    \* the section number of generate_trec_pdf and convert_to_roman
    section,        \* the section dict
    section_idx,    \* its position in sorted_sections
    num,            \* convert_to_roman: what is left of the argument
    i,              \* convert_to_roman: index into val and syms
    roman_num,      \* convert_to_roman: the numeral built so far
    section_num,    \* the label of the section header
    rpc             \* position: "start", "loop", "done"

varsRoman == <<section, section_idx, num, i, roman_num, section_num, rpc>>

VARIABLES
    \* TRECReportCanvas
    report_id,          \* self.report_id
    pageNumber,         \* self._pageNumber
    code,               \* self._code: the operations of the page being drawn
    saved_page_states,  \* self._saved_page_states
    doc_pages,          \* the pages handed to the document by Canvas.showPage
    finished,           \* history: the content of each page when showPage was called
    cpc                 \* position: "open", "saved"

varsCanvas == <<report_id, pageNumber, code, saved_page_states, doc_pages, finished, cpc>>

VARIABLES
    \* server.py
    REPORTLAB_AVAILABLE,  \* set when the module is imported
    generated_files,      \* the files written into GENERATED_DIR
    uuid_next,            \* the next fresh uuid4 token
    request,              \* the last request: route and JSON body
    called,               \* history: the generator was called for it
    exc,                  \* history: what the generator raised for it, or "none"
    response              \* the last response: status and JSON body

varsServer == <<REPORTLAB_AVAILABLE, generated_files, uuid_next, request, called, exc, response>>

VARIABLES
    \* generate_trec_pdf / generate_trec_pdf_from_json
    entry,          \* the function called
    json_data,      \* generate_trec_pdf_from_json: the root object
    sections,       \* the sections argument
    metadata,       \* the metadata argument (NoneValue for None)
    output_path,    \* <<directory, file>>, the directory "" when the path has none
    fs_dirs,        \* the directories that exist
    fs_files,       \* the files that exist
    story,          \* the list of flowables
    flowables,      \* doc.build: the flowables not yet placed
    rows_left,      \* doc.build: the height left in the frame of the page
    atTop,          \* doc.build: nothing is placed on the page yet
    raised,         \* the exception that ended the call, or "none"
    result,         \* the path returned, or <<>>
    gpc             \* position in generate_trec_pdf

varsGen == <<entry, json_data, sections, metadata, output_path, fs_dirs, fs_files,
             story, flowables, rows_left, atTop, raised, result, gpc>>

vars == <<varsStatus, varsLetter, varsRoman, varsCanvas, varsServer, varsGen>>

(***************************************************************************)
(* Bounds of the model.                                                    *)
(***************************************************************************)
MaxStatusLen == 2
MaxStatusComments == 2
MaxLetterIdx == 730
MaxNegative == 3
MaxSectionIdx == 3998
MaxPages == 3
MaxOpsPerPage == 2
MaxRequests == 3
PageRows == 8
MaxLayoutItems == 2
MaxLayoutComments == 2
MaxOrderTotal == 4
MaxMedia == 2
MaxMediaComments == 2

(***************************************************************************)
(* Python helpers.                                                         *)
(***************************************************************************)
Has(d, k) == k \in DOMAIN d

Get(d, k, default) == IF k \in DOMAIN d THEN d[k] ELSE default

\* Sequences over S of length 0..n.
SeqUpTo(S, n) == UNION {[1..k -> S] : k \in 0..n}

\* str.upper() on one character of the alphabet the model draws from.
UpperChar(c) ==
    CASE c = "i" -> "I"
      [] c = "n" -> "N"
      [] c = "p" -> "P"
      [] c = "d" -> "D"
      [] c = "x" -> "X"
      [] c = "a" -> "A"
      [] c = "b" -> "B"
      [] c = "c" -> "C"
      [] OTHER -> c

\* str.upper()
Upper(s) == [k \in 1..Len(s) |-> UpperChar(s[k])]

\* The four status codes, in the order of the list helper.py writes.
statuses == << <<"I">>, <<"N", "I">>, <<"N", "P">>, <<"D">> >>

StatusCodes == {statuses[k] : k \in 1..Len(statuses)}

(***************************************************************************)
(* get_inspection_status (helper.py 161-183).                              *)
(***************************************************************************)
\* The loop over the comments: TRUE when it returns 'D'.
RECURSIVE DeficientCommentFrom(_, _)
DeficientCommentFrom(comments, k) ==
    IF k > Len(comments) THEN FALSE
    ELSE IF \/ Get(comments[k], "type", "") = "deficient"
            \/ Get(comments[k], "isFlagged", FALSE)
         THEN TRUE
         ELSE DeficientCommentFrom(comments, k + 1)

\* The rules after the explicit status: isDeficient, the comments, default.
StatusFromFlags(item) ==
    IF Get(item, "isDeficient", FALSE) THEN <<"D">>
    ELSE LET comments == Get(item, "comments", <<>>)
         IN  IF DeficientCommentFrom(comments, 1) THEN <<"D">>
             ELSE IF comments # <<>> THEN <<"I">>
             ELSE <<>>

\* A plausible slip: the deficiency flag is looked at before the explicit status.
get_inspection_status_FlagFirst(item) ==
    IF Get(item, "isDeficient", FALSE) THEN <<"D">>
    ELSE IF /\ Get(item, "inspectionStatus", <<>>) # <<>>
            /\ Upper(item["inspectionStatus"]) \in StatusCodes
         THEN Upper(item["inspectionStatus"])
         ELSE StatusFromFlags(item)

get_inspection_status(item) ==
    IF /\ Get(item, "inspectionStatus", <<>>) # <<>>
       /\ Upper(item["inspectionStatus"]) \in StatusCodes
    THEN Upper(item["inspectionStatus"])
    ELSE StatusFromFlags(item)

(***************************************************************************)
(* CheckboxMarker.draw (helper.py 275-296).  Lengths are in points         *)
(* (inch = 72).  An operation is <<"rect", x, y, w, h>> or                 *)
(* <<"line", x1, y1, x2, y2>>.                                             *)
(***************************************************************************)
checkbox_size == 10
checkbox_x == -90
spacing == 18
y_base == 3

\* The body of the for loop for status number bi (the loop index i, from 0).
DrawBox(st, bi) ==
    LET x == checkbox_x + (bi * spacing)
        stat == statuses[bi + 1]
    IN  <<  <<"rect", x, y_base, checkbox_size, checkbox_size>> >>
        \o (IF st # <<>> /\ stat = Upper(st)
            THEN << <<"line", x, y_base, x + checkbox_size, y_base + checkbox_size>>,
                    <<"line", x + checkbox_size, y_base, x, y_base + checkbox_size>> >>
            ELSE <<>>)

RECURSIVE DrawFrom(_, _)
DrawFrom(st, bi) ==
    IF bi >= Len(statuses) THEN <<>>
    ELSE DrawBox(st, bi) \o DrawFrom(st, bi + 1)

\* A plausible slip: the X is drawn in every box once a status is set.
CheckboxMarker_draw_AllBoxes(st) ==
    LET Box(bi) ==
          LET x == checkbox_x + (bi * spacing)
          IN  <<  <<"rect", x, y_base, checkbox_size, checkbox_size>> >>
              \o (IF st # <<>>
                  THEN << <<"line", x, y_base, x + checkbox_size, y_base + checkbox_size>>,
                          <<"line", x + checkbox_size, y_base, x, y_base + checkbox_size>> >>
                  ELSE <<>>)
    IN  Box(0) \o Box(1) \o Box(2) \o Box(3)

CheckboxMarker_draw(st) == DrawFrom(st, 0)

(***************************************************************************)
(* Inputs of the status specification.                                     *)
(***************************************************************************)
StatusAlphabet == {"i", "n", "N", "P", "d", "x"}

StatusStrings == SeqUpTo(StatusAlphabet, MaxStatusLen)

StatusComments ==
    { <<>>,
      [type |-> "deficient"],
      [type |-> "info"],
      [isFlagged |-> TRUE],
      [type |-> "info", isFlagged |-> FALSE] }

\* A dict with the keys whose flag is set.
MkItem(hasS, s, hasD, d, hasC, c) ==
    [k \in ((IF hasS THEN {"inspectionStatus"} ELSE {})
            \cup (IF hasD THEN {"isDeficient"} ELSE {})
            \cup (IF hasC THEN {"comments"} ELSE {})) |->
        CASE k = "inspectionStatus" -> s
          [] k = "isDeficient" -> d
          [] k = "comments" -> c]

StatusItems ==
    {MkItem(TRUE, s, TRUE, d, TRUE, c) :
        s \in StatusStrings, d \in BOOLEAN,
        c \in SeqUpTo(StatusComments, MaxStatusComments)}
    \cup {MkItem(FALSE, <<>>, hd, TRUE, hc, c) :
        hd \in BOOLEAN, hc \in BOOLEAN,
        c \in SeqUpTo(StatusComments, MaxStatusComments)}

IdleLetter ==
    /\ letter_in = 0
    /\ letter_out = <<>>
    /\ lpc = "idle"

IdleRoman ==
    /\ section = <<>>
    /\ section_idx = 0
    /\ num = 0
    /\ i = 0
    /\ roman_num = <<>>
    /\ section_num = <<>>
    /\ rpc = "idle"

IdleCanvas ==
    /\ report_id = ""
    /\ pageNumber = 1
    /\ code = <<>>
    /\ saved_page_states = <<>>
    /\ doc_pages = <<>>
    /\ finished = <<>>
    /\ cpc = "idle"

IdleServer ==
    /\ REPORTLAB_AVAILABLE = TRUE
    /\ generated_files = {}
    /\ uuid_next = 0
    /\ request = <<>>
    /\ called = FALSE
    /\ exc = "none"
    /\ response = <<>>

IdleGen ==
    /\ entry = "idle"
    /\ json_data = <<>>
    /\ sections = <<>>
    /\ metadata = <<>>
    /\ output_path = <<"", "">>
    /\ fs_dirs = {}
    /\ fs_files = {}
    /\ story = <<>>
    /\ flowables = <<>>
    /\ rows_left = 0
    /\ atTop = TRUE
    /\ raised = "none"
    /\ result = <<>>
    /\ gpc = "idle"

IdleStatus ==
    /\ line_item = <<>>
    /\ status = <<>>
    /\ marker_ops = <<>>
    /\ spc = "idle"

InitStatus ==
    /\ IdleGen
    /\ IdleServer
    /\ IdleCanvas
    /\ IdleLetter
    /\ IdleRoman
    /\ line_item \in StatusItems
    /\ status = <<>>
    /\ marker_ops = <<>>
    /\ spc = "start"

\* generate_trec_pdf line 408: status = get_inspection_status(line_item)
DeriveStatus ==
    /\ spc = "start"
    /\ status' = get_inspection_status(line_item)
    /\ spc' = "derived"
    /\ UNCHANGED <<line_item, marker_ops, varsLetter, varsRoman, varsCanvas, varsServer, varsGen>>

\* The CheckboxMarker built at line 411 is drawn by the layout.
DrawMarker ==
    /\ spc = "derived"
    /\ marker_ops' = CheckboxMarker_draw(status)
    /\ spc' = "drawn"
    /\ UNCHANGED <<line_item, status, varsLetter, varsRoman, varsCanvas, varsServer, varsGen>>

NextStatus == DeriveStatus \/ DrawMarker

SpecStatus == InitStatus /\ [][NextStatus]_vars

(***************************************************************************)
(* C1.  get_inspection_status returns the result of the first rule that    *)
(* matches: (1) the explicit inspectionStatus upper-cased when that is one *)
(* of I, NI, NP, D; (2) D when isDeficient is set; (3) D when some comment *)
(* has type 'deficient' or is flagged; (4) I when there is a comment;      *)
(* (5) blank.  A valid explicit status wins over isDeficient and over      *)
(* deficient comments; an explicit status outside the four codes is        *)
(* ignored.                                                                *)
(***************************************************************************)
ExplicitValid(item) ==
    /\ Has(item, "inspectionStatus")
    /\ \E k \in 1..4 : Upper(item["inspectionStatus"]) = statuses[k]

HasDeficientComment(item) ==
    /\ Has(item, "comments")
    /\ \E k \in 1..Len(item["comments"]) :
          LET c == item["comments"][k]
          IN  \/ (Has(c, "type") /\ c["type"] = "deficient")
              \/ (Has(c, "isFlagged") /\ c["isFlagged"])

IsDeficientSet(item) == Has(item, "isDeficient") /\ item["isDeficient"]

HasComments(item) == Has(item, "comments") /\ Len(item["comments"]) > 0

C1_StatusPriority ==
    spc \in {"derived", "drawn"} =>
        /\ ExplicitValid(line_item) => status = Upper(line_item["inspectionStatus"])
        /\ ~ExplicitValid(line_item) /\ IsDeficientSet(line_item) => status = <<"D">>
        /\ ~ExplicitValid(line_item) /\ ~IsDeficientSet(line_item)
              /\ HasDeficientComment(line_item) => status = <<"D">>
        /\ ~ExplicitValid(line_item) /\ ~IsDeficientSet(line_item)
              /\ ~HasDeficientComment(line_item) /\ HasComments(line_item)
              => status = <<"I">>
        /\ ~ExplicitValid(line_item) /\ ~IsDeficientSet(line_item)
              /\ ~HasComments(line_item) => status = <<>>

\* An explicit "ni" beside isDeficient and a deficient comment gives NI.
C1_Witness ==
    /\ spc = "derived"
    /\ Has(line_item, "inspectionStatus")
    /\ line_item["inspectionStatus"] = <<"n", "i">>
    /\ IsDeficientSet(line_item)
    /\ HasDeficientComment(line_item)
    /\ status = <<"N", "I">>

(***************************************************************************)
(* C7.  CheckboxMarker.draw draws exactly four boxes, left to right in the *)
(* order I, NI, NP, D; when the derived status is one of the four codes    *)
(* the X (two crossing diagonals) is drawn in exactly the box at the       *)
(* status's position, and no X is drawn when the status is blank.          *)
(***************************************************************************)
Rects(ops) == SelectSeq(ops, LAMBDA o : o[1] = "rect")

Lines(ops) == SelectSeq(ops, LAMBDA o : o[1] = "line")

\* The 1-based position of a status code in I, NI, NP, D; 0 for the blank.
CodePosition(st) ==
    IF st = <<"I">> THEN 1
    ELSE IF st = <<"N", "I">> THEN 2
    ELSE IF st = <<"N", "P">> THEN 3
    ELSE IF st = <<"D">> THEN 4
    ELSE 0

\* Both diagonals of the box whose lower left corner is at x.
IsCrossOf(ls, x) ==
    /\ Len(ls) = 2
    /\ {ls[1], ls[2]} = { <<"line", x, 3, x + 10, 13>>, <<"line", x + 10, 3, x, 13>> }

C7_CheckboxRow ==
    spc = "drawn" =>
        /\ Len(Rects(marker_ops)) = 4
        /\ \A k \in 1..4 : Rects(marker_ops)[k] = <<"rect", -90 + 18 * (k - 1), 3, 10, 10>>
        /\ CodePosition(status) = 0 => Lines(marker_ops) = <<>>
        /\ CodePosition(status) # 0 =>
              IsCrossOf(Lines(marker_ops), -90 + 18 * (CodePosition(status) - 1))
        /\ status = <<>> \/ CodePosition(status) # 0

\* A lower-case explicit "np": the X is in the third box only.
C7_Witness ==
    /\ spc = "drawn"
    /\ Has(line_item, "inspectionStatus")
    /\ line_item["inspectionStatus"] = <<"n", "P">>
    /\ status = <<"N", "P">>
    /\ Len(marker_ops) = 6

(***************************************************************************)
(* convert_to_letter (helper.py 134-141).  A character is its code, as in  *)
(* chr(65 + num).                                                          *)
(***************************************************************************)
\* A plausible slip: plain base 26, without the "- 1" of the bijective numbering.
RECURSIVE convert_to_letter_Base26(_)
convert_to_letter_Base26(n) ==
    IF n < 0 THEN <<>>
    ELSE IF n < 26 THEN <<65 + n>>
    ELSE Append(convert_to_letter_Base26(n \div 26), 65 + (n % 26))

RECURSIVE convert_to_letter(_)
convert_to_letter(n) ==
    IF n < 0 THEN <<>>
    ELSE IF n < 26 THEN <<65 + n>>
    ELSE Append(convert_to_letter((n \div 26) - 1), 65 + (n % 26))

InitLetter ==
    /\ IdleGen
    /\ IdleServer
    /\ IdleCanvas
    /\ IdleStatus
    /\ IdleRoman
    /\ letter_in \in (0 - MaxNegative)..MaxLetterIdx
    /\ letter_out = <<>>
    /\ lpc = "start"

\* generate_trec_pdf line 398: item_letter = convert_to_letter(item_idx)
ConvertLetter ==
    /\ lpc = "start"
    /\ letter_out' = convert_to_letter(letter_in)
    /\ lpc' = "done"
    /\ UNCHANGED <<letter_in, varsStatus, varsRoman, varsCanvas, varsServer, varsGen>>

NextLetter == ConvertLetter

SpecLetter == InitLetter /\ [][NextLetter]_vars

(***************************************************************************)
(* C8.  convert_to_letter maps every index n >= 0 to the n-th label of the *)
(* sequence A..Z, AA, AB, ..., AZ, BA, ...: 0->A, 25->Z, 26->AA, 51->AZ,   *)
(* 52->BA, 701->ZZ, 702->AAA; distinct indices get distinct labels, and    *)
(* every negative index gives the empty string.                            *)
(***************************************************************************)
RECURSIVE Pow26(_)
Pow26(k) == IF k = 0 THEN 1 ELSE 26 * Pow26(k - 1)

\* How many labels are shorter than len: 26 + 26^2 + ... + 26^(len-1).
RECURSIVE ShorterLabels(_)
ShorterLabels(len) == IF len <= 1 THEN 0 ELSE Pow26(len - 1) + ShorterLabels(len - 1)

\* The length of the n-th label: labels are listed by length, then alphabetically.
LabelLength(n) == CHOOSE len \in 1..4 : ShorterLabels(len) <= n /\ n < ShorterLabels(len + 1)

\* The n-th label: the rank among the labels of its length, written with
\* that many letters, A standing for 0.
NthLabel(n) ==
    LET len == LabelLength(n)
        rank == n - ShorterLabels(len)
    IN  [k \in 1..len |-> 65 + ((rank \div Pow26(len - k)) % 26)]

LetterExamples ==
    /\ letter_in = 0 => letter_out = <<65>>
    /\ letter_in = 25 => letter_out = <<90>>
    /\ letter_in = 26 => letter_out = <<65, 65>>
    /\ letter_in = 51 => letter_out = <<65, 90>>
    /\ letter_in = 52 => letter_out = <<66, 65>>
    /\ letter_in = 701 => letter_out = <<90, 90>>
    /\ letter_in = 702 => letter_out = <<65, 65, 65>>

C8_LetterLabels ==
    lpc = "done" =>
        /\ letter_in < 0 => letter_out = <<>>
        /\ letter_in >= 0 => letter_out = NthLabel(letter_in)
        /\ LetterExamples
        /\ letter_in >= 0 =>
              \A m \in 0..MaxLetterIdx :
                  m # letter_in => convert_to_letter(m) # letter_out

\* The first three-letter label.
C8_Witness ==
    /\ lpc = "done"
    /\ letter_in = 702
    /\ letter_out = <<65, 65, 65>>

(***************************************************************************)
(* convert_to_roman (helper.py 110-131) and the section number             *)
(* (helper.py 380-390).  Python's val[i] and syms[i] count from 0; the     *)
(* tuples below are read at i + 1.                                         *)
(***************************************************************************)
val == <<1000, 900, 500, 400, 100, 90, 50, 40, 10, 9, 5, 4, 1>>

syms == << <<"M">>, <<"C", "M">>, <<"D">>, <<"C", "D">>,
           <<"C">>, <<"X", "C">>, <<"L">>, <<"X", "L">>,
           <<"X">>, <<"I", "X">>, <<"V">>, <<"I", "V">>,
           <<"I">> >>

\* s repeated n times.
RECURSIVE Repeat(_, _)
Repeat(s, n) == IF n <= 0 THEN <<>> ELSE s \o Repeat(s, n - 1)

\* A plausible slip: "if num >= val[i]" in place of the for loop, so that a
\* symbol is appended and its value subtracted at most once.
RomanIter_Once(n, k, r) ==
    LET times == IF n >= val[k + 1] THEN 1 ELSE 0
    IN  [num |-> n - times * val[k + 1],
         i |-> k + 1,
         roman_num |-> r \o Repeat(syms[k + 1], times)]

\* One pass of the while loop: the for loop runs num // val[i] times, each
\* appending syms[i] and subtracting val[i]; then i += 1.
RomanIter(n, k, r) ==
    LET times == n \div val[k + 1]
    IN  [num |-> n - times * val[k + 1],
         i |-> k + 1,
         roman_num |-> r \o Repeat(syms[k + 1], times)]

RECURSIVE RomanLoop(_, _, _)
RomanLoop(n, k, r) ==
    IF n > 0
    THEN LET s == RomanIter(n, k, r) IN RomanLoop(s.num, s.i, s.roman_num)
    ELSE r

convert_to_roman(n) == RomanLoop(n, 0, <<>>)

RomanSections == { <<>>, [sectionNumber |-> <<>>], [sectionNumber |-> <<"7", "a">>] }

InitRoman ==
    /\ IdleGen
    /\ IdleServer
    /\ IdleCanvas
    /\ IdleStatus
    /\ IdleLetter
    /\ section \in RomanSections
    /\ section_idx \in 0..MaxSectionIdx
    /\ num = 0
    /\ i = 0
    /\ roman_num = <<>>
    /\ section_num = <<>>
    /\ rpc = "start"

\* Lines 382-385: the explicit sectionNumber, or the call of convert_to_roman.
SectionNumber ==
    /\ rpc = "start"
    /\ IF Get(section, "sectionNumber", <<>>) # <<>>
       THEN /\ section_num' = section["sectionNumber"]
            /\ rpc' = "done"
            /\ UNCHANGED <<num, i, roman_num>>
       ELSE /\ num' = section_idx + 1
            /\ i' = 0
            /\ roman_num' = <<>>
            /\ rpc' = "loop"
            /\ UNCHANGED section_num
    /\ UNCHANGED <<section, section_idx, varsStatus, varsLetter, varsCanvas, varsServer, varsGen>>

\* One pass of "while num > 0".  val[i] is read only for 0 <= i <= 12: past
\* the table Python raises IndexError.
RomanWhile ==
    /\ rpc = "loop"
    /\ num > 0
    /\ IF i + 1 \in DOMAIN val
       THEN LET s == RomanIter(num, i, roman_num)
            IN  /\ num' = s.num
                /\ i' = s.i
                /\ roman_num' = s.roman_num
                /\ UNCHANGED rpc
       ELSE /\ rpc' = "IndexError"
            /\ UNCHANGED <<num, i, roman_num>>
    /\ UNCHANGED <<section, section_idx, section_num, varsStatus, varsLetter, varsCanvas, varsServer, varsGen>>

\* "return roman_num", assigned to section_num at line 385.
RomanReturn ==
    /\ rpc = "loop"
    /\ num <= 0
    /\ section_num' = roman_num
    /\ rpc' = "done"
    /\ UNCHANGED <<section, section_idx, num, i, roman_num, varsStatus, varsLetter, varsCanvas, varsServer, varsGen>>

NextRoman == SectionNumber \/ RomanWhile \/ RomanReturn

\* The code runs on once called: a sequential loop is not starved.
SpecRoman == InitRoman /\ [][NextRoman]_vars /\ WF_vars(NextRoman)

(***************************************************************************)
(* C9.  A section without an explicit sectionNumber at 0-based position    *)
(* idx of the sorted list is labelled with the standard subtractive Roman  *)
(* numeral of idx+1 (1->I, 4->IV, 9->IX, 40->XL, 90->XC, 2024->MMXXIV);    *)
(* convert_to_roman terminates and never reads past its 13-entry table; a  *)
(* section with a non-empty sectionNumber keeps that value unchanged.      *)
(***************************************************************************)
\* The standard numeral, digit by digit: each decimal digit has its own
\* fixed spelling in the letters of its place.
RomanDigit(d, one, five, ten) ==
    CASE d = 0 -> <<>>
      [] d = 1 -> <<one>>
      [] d = 2 -> <<one, one>>
      [] d = 3 -> <<one, one, one>>
      [] d = 4 -> <<one, five>>
      [] d = 5 -> <<five>>
      [] d = 6 -> <<five, one>>
      [] d = 7 -> <<five, one, one>>
      [] d = 8 -> <<five, one, one, one>>
      [] d = 9 -> <<one, ten>>

StandardRoman(n) ==
    [k \in 1..(n \div 1000) |-> "M"]
        \o RomanDigit((n \div 100) % 10, "C", "D", "M")
        \o RomanDigit((n \div 10) % 10, "X", "L", "C")
        \o RomanDigit(n % 10, "I", "V", "X")

RomanExamples ==
    /\ section_idx + 1 = 1 => section_num = <<"I">>
    /\ section_idx + 1 = 4 => section_num = <<"I", "V">>
    /\ section_idx + 1 = 9 => section_num = <<"I", "X">>
    /\ section_idx + 1 = 40 => section_num = <<"X", "L">>
    /\ section_idx + 1 = 90 => section_num = <<"X", "C">>
    /\ section_idx + 1 = 2024 => section_num = <<"M", "M", "X", "X", "I", "V">>

ExplicitSectionNumber ==
    Has(section, "sectionNumber") /\ Len(section["sectionNumber"]) > 0

RomanSafe ==
    /\ rpc # "IndexError"
    /\ rpc = "loop" /\ num > 0 => i <= 12
    /\ rpc = "done" /\ ExplicitSectionNumber => section_num = section["sectionNumber"]
    /\ rpc = "done" /\ ~ExplicitSectionNumber =>
          /\ section_num = StandardRoman(section_idx + 1)
          /\ RomanExamples

C9_SectionLabel == []RomanSafe /\ <>(rpc = "done")

\* 2024 has been spelled MMXXIV after reading the table up to its last entry.
C9_Witness ==
    /\ rpc = "done"
    /\ ~ExplicitSectionNumber
    /\ section_idx = 2023
    /\ section_num = <<"M", "M", "X", "X", "I", "V">>

(***************************************************************************)
(* TRECReportCanvas (helper.py 18-107).  A page is the sequence of its     *)
(* operations: <<"content", c>> for what the layout draws, <<"header", id>>*)
(* for draw_header, <<"footer", n, total>> for the "Page n of total" line  *)
(* of draw_footer.                                                         *)
(***************************************************************************)
\* draw_header: the report identification line, the legend and the box.
draw_header(rid) == <<"header", rid>>

\* A plausible slip: the running page number in place of the total.
draw_footer_Running(pn, num_pages) == <<"footer", pn, pn>>

\* draw_footer: f"Page {self._pageNumber} of {num_pages}" and the citations.
draw_footer(pn, num_pages) == <<"footer", pn, num_pages>>

\* dict(self.__dict__): the attributes of the canvas the model follows.
PageState == [pageNumber |-> pageNumber, code |-> code]

\* The for loop of save from the k-th saved state on: each state is
\* restored, decorated and handed to Canvas.showPage.
RECURSIVE SaveFrom(_, _, _)
SaveFrom(states, k, num_pages) ==
    IF k > Len(states) THEN <<>>
    ELSE << states[k].code
              \o <<draw_header(report_id)>>
              \o <<draw_footer(states[k].pageNumber, num_pages)>> >>
         \o SaveFrom(states, k + 1, num_pages)

\* showPage: the state is buffered and _startPage begins the next page.
CanvasShowPage ==
    /\ saved_page_states' = Append(saved_page_states, PageState)
    /\ finished' = Append(finished, code)
    /\ pageNumber' = pageNumber + 1
    /\ code' = <<>>
    /\ UNCHANGED <<report_id, doc_pages>>

\* save.  After a loop of at least one pass the canvas is at the start of a
\* fresh page.  With nothing buffered, Canvas.save finds the operations
\* drawn so far and calls self.showPage(), which only buffers them.
CanvasSave ==
    LET num_pages == Len(saved_page_states)
    IN  /\ doc_pages' = doc_pages \o SaveFrom(saved_page_states, 1, num_pages)
        /\ IF num_pages > 0
           THEN /\ pageNumber' = saved_page_states[num_pages].pageNumber + 1
                /\ code' = <<>>
                /\ UNCHANGED saved_page_states
           ELSE IF Len(code) > 0
           THEN /\ saved_page_states' = Append(saved_page_states, PageState)
                /\ pageNumber' = pageNumber + 1
                /\ code' = <<>>
           ELSE UNCHANGED <<saved_page_states, pageNumber, code>>
        /\ UNCHANGED <<report_id, finished>>

ContentKinds == {"a", "b"}

InitCanvas ==
    /\ IdleGen
    /\ IdleServer
    /\ IdleStatus
    /\ IdleLetter
    /\ IdleRoman
    /\ report_id \in {"N/A", "R-1"}
    /\ pageNumber = 1
    /\ code = <<>>
    /\ saved_page_states = <<>>
    /\ doc_pages = <<>>
    /\ finished = <<>>
    /\ cpc = "open"

\* A flowable is drawn on the current page.
DrawContent ==
    /\ cpc = "open"
    /\ Len(code) < MaxOpsPerPage
    /\ \E c \in ContentKinds : code' = Append(code, <<"content", c>>)
    /\ UNCHANGED <<report_id, pageNumber, saved_page_states, doc_pages, finished, cpc>>
    /\ UNCHANGED <<varsStatus, varsLetter, varsRoman, varsServer, varsGen>>

ShowPage ==
    /\ cpc = "open"
    /\ Len(saved_page_states) < MaxPages
    /\ CanvasShowPage
    /\ UNCHANGED cpc
    /\ UNCHANGED <<varsStatus, varsLetter, varsRoman, varsServer, varsGen>>

Save ==
    /\ cpc = "open"
    /\ CanvasSave
    /\ cpc' = "saved"
    /\ UNCHANGED <<varsStatus, varsLetter, varsRoman, varsServer, varsGen>>

NextCanvas == DrawContent \/ ShowPage \/ Save

SpecCanvas == InitCanvas /\ [][NextCanvas]_vars

(***************************************************************************)
(* C3.  For k showPage calls followed by save: no header or footer is      *)
(* drawn before save; save emits exactly the k buffered pages in the order *)
(* they were finished, with the header and the footer exactly once on      *)
(* each, and the footer of the n-th page reads "Page n of k".              *)
(***************************************************************************)
IsDecoration(o) == o[1] \in {"header", "footer"}

NoDecoration(ops) == \A k \in 1..Len(ops) : ~IsDecoration(ops[k])

C3_DeferredDecoration ==
    /\ cpc = "open" =>
          /\ doc_pages = <<>>
          /\ NoDecoration(code)
          /\ \A n \in 1..Len(saved_page_states) : NoDecoration(saved_page_states[n].code)
    /\ cpc = "saved" =>
          /\ Len(doc_pages) = Len(finished)
          /\ \A n \in 1..Len(doc_pages) :
                /\ SelectSeq(doc_pages[n], LAMBDA o : o[1] = "content") = finished[n]
                /\ SelectSeq(doc_pages[n], LAMBDA o : o[1] = "header")
                      = << <<"header", report_id>> >>
                /\ SelectSeq(doc_pages[n], LAMBDA o : o[1] = "footer")
                      = << <<"footer", n, Len(finished)>> >>

\* Three pages with different content, saved.
C3_Witness ==
    /\ cpc = "saved"
    /\ Len(finished) = 3
    /\ finished[1] # finished[2]
    /\ Len(doc_pages) = 3
    /\ doc_pages[2][Len(doc_pages[2])] = <<"footer", 2, 3>>

(***************************************************************************)
(* server.py.  A request body is missing, not JSON ("invalid"), or JSON:   *)
(* null, an object, or another value (array, number, string).              *)
(***************************************************************************)
BodyKinds == {"missing", "invalid", "null", "object", "emptyobject", "array", "number", "string"}

\* request.get_json(force=True, silent=True): None unless the body parses,
\* and None for the JSON null it parses to.
get_json(body) == IF body \in {"missing", "invalid", "null"} THEN "None" ELSE body

\* The placeholder generators (server.py 55-88), alike but for the file name
\* prefix: data.items() is read first, then _render_pdf_text checks
\* REPORTLAB_AVAILABLE, then _save_pdf_bytes writes the file (io is what the
\* file system answers).  The result: what was raised, and the path.
GeneratePdf(prefix, data, token, io) ==
    IF data \notin {"object", "emptyobject"}
    THEN [exc |-> "AttributeError", path |-> <<>>]
    ELSE IF ~REPORTLAB_AVAILABLE
    THEN [exc |-> "NotImplementedError", path |-> <<>>]
    ELSE IF io # "ok"
    THEN [exc |-> "OSError", path |-> <<>>]
    ELSE [exc |-> "none", path |-> <<"GENERATED_DIR", prefix, token>>]

\* os.path.basename
basename(path) == SubSeq(path, 2, Len(path))

\* The body of both route functions (server.py 97-109 and 118-130).
RouteResponse(prefix, body, token, io) ==
    LET data == get_json(body)
        g == GeneratePdf(prefix, data, token, io)
    IN  IF data = "None"
        THEN [status |-> 400, body |-> [error |-> "Invalid or missing JSON body"]]
        ELSE IF g.exc = "NotImplementedError"
        THEN [status |-> 501, body |-> [error |-> "reportlab is required"]]
        ELSE IF g.exc # "none"
        THEN [status |-> 500, body |-> [error |-> "Generation failed"]]
        ELSE [status |-> 200,
              body |-> [filepath |-> g.path, filename |-> basename(g.path)]]

Route(route, prefix) ==
    /\ uuid_next < MaxRequests
    /\ \E body \in BodyKinds, io \in {"ok", "OSError"} :
          LET data == get_json(body)
              g == GeneratePdf(prefix, data, uuid_next, io)
          IN  /\ request' = [route |-> route, body |-> body]
              /\ called' = (data # "None")
              /\ exc' = IF data # "None" THEN g.exc ELSE "none"
              /\ response' = RouteResponse(prefix, body, uuid_next, io)
              /\ generated_files' =
                    IF data # "None" /\ g.exc = "none"
                    THEN generated_files \cup {g.path}
                    ELSE generated_files
    /\ uuid_next' = uuid_next + 1
    /\ UNCHANGED REPORTLAB_AVAILABLE
    /\ UNCHANGED <<varsStatus, varsLetter, varsRoman, varsCanvas, varsGen>>

route_generate_trec == Route("/generate_trec", "trec_")

route_generate_binsr_pdf == Route("/generate_binsr_pdf", "binsr_")

InitServer ==
    /\ IdleGen
    /\ IdleStatus
    /\ IdleLetter
    /\ IdleRoman
    /\ IdleCanvas
    /\ REPORTLAB_AVAILABLE \in BOOLEAN
    /\ generated_files = {}
    /\ uuid_next = 0
    /\ request = <<>>
    /\ called = FALSE
    /\ exc = "none"
    /\ response = <<>>

NextServer == route_generate_trec \/ route_generate_binsr_pdf

SpecServer == InitServer /\ [][NextServer]_vars

(***************************************************************************)
(* C10.  Each endpoint answers every request with exactly one of: 400 with *)
(* an error when the JSON body is missing or invalid (the generator is not *)
(* called), 501 with an error when the rendering backend is unavailable,   *)
(* 500 with an error on any other generation failure, 200 with filepath    *)
(* and filename only when generation completed; no response other than the *)
(* 200 one carries a filepath or filename.                                 *)
(***************************************************************************)
Answered == response # <<>>

IsError(r, st) == r.status = st /\ DOMAIN r.body = {"error"}

C10_FourOutcomes ==
    Answered =>
        /\ response.status \in {400, 501, 500, 200}
        /\ request.body \in {"missing", "invalid"} => IsError(response, 400) /\ ~called
        /\ response.status = 400 => IsError(response, 400) /\ ~called
        /\ called /\ ~REPORTLAB_AVAILABLE => IsError(response, 501)
        /\ called /\ REPORTLAB_AVAILABLE /\ exc # "none" => IsError(response, 500)
        /\ response.status = 200 =>
              /\ called /\ exc = "none"
              /\ DOMAIN response.body = {"filepath", "filename"}
              /\ response.body.filepath \in generated_files
        /\ response.status # 200 => DOMAIN response.body \cap {"filepath", "filename"} = {}

(***************************************************************************)
(* generate_trec_pdf (helper.py 332-473): the story.                       *)
(*                                                                         *)
(* A text is a sequence of lines; a formatted string such as               *)
(* f"{section_num}. {section_name}" is the tuple of its parts.  A flowable *)
(* is a record: a Paragraph with its style and lines, a CheckboxMarker     *)
(* with its status, a Spacer with its height in tenths of an inch, a       *)
(* KeepTogether with its content.                                          *)
(***************************************************************************)
Paragraph(lines, style) ==
    [kind |-> "Paragraph", style |-> style, lines |-> lines, cont |-> FALSE]

CheckboxMarker(st) == [kind |-> "CheckboxMarker", status |-> st]

Spacer(height) == [kind |-> "Spacer", height |-> height]

KeepTogether(content) == [kind |-> "KeepTogether", content |-> content]

\* key=lambda x: x.get('order', 0)
OrderKey(x) == Get(x, "order", 0)

\* A plausible slip: an unstable sort, equal keys coming out reversed.
RECURSIVE InsertByOrder_Unstable(_, _)
InsertByOrder_Unstable(sq, x) ==
    IF sq = <<>> THEN <<x>>
    ELSE IF OrderKey(sq[Len(sq)]) < OrderKey(x) THEN Append(sq, x)
    ELSE Append(InsertByOrder_Unstable(SubSeq(sq, 1, Len(sq) - 1), x), sq[Len(sq)])

\* x put into the sorted sq behind every element whose key is not greater.
RECURSIVE InsertByOrder(_, _)
InsertByOrder(sq, x) ==
    IF sq = <<>> THEN <<x>>
    ELSE IF OrderKey(sq[Len(sq)]) <= OrderKey(x) THEN Append(sq, x)
    ELSE Append(InsertByOrder(SubSeq(sq, 1, Len(sq) - 1), x), sq[Len(sq)])

\* sorted(list, key=lambda x: x.get('order', 0)): Python's sort is stable.
RECURSIVE SortedPrefix(_, _)
SortedPrefix(list, k) ==
    IF k = 0 THEN <<>> ELSE InsertByOrder(SortedPrefix(list, k - 1), list[k])

sorted_by_order(list) == SortedPrefix(list, Len(list))

\* html.unescape on one line of the texts the model draws from.
escape_html_entities(text) ==
    [k \in 1..Len(text) |-> IF text[k] = "&amp;" THEN "&" ELSE text[k]]

\* get_comment_text: the first non-empty of text, content, commentText, value.
get_comment_text(comment) ==
    IF Get(comment, "text", <<>>) # <<>> THEN escape_html_entities(comment["text"])
    ELSE IF Get(comment, "content", <<>>) # <<>> THEN escape_html_entities(comment["content"])
    ELSE IF Get(comment, "commentText", <<>>) # <<>>
         THEN escape_html_entities(comment["commentText"])
    ELSE IF Get(comment, "value", <<>>) # <<>> THEN escape_html_entities(comment["value"])
    ELSE <<>>

\* Lines 421-443: the label, the text and the media note of one comment.
\* CommentFlowables without the singular wording.
CommentFlowables_AlwaysPlural(comment) ==
    LET comment_label == Get(comment, "label", "")
        comment_number == Get(comment, "commentNumber", "")
        label_text == IF comment_number # "" THEN <<comment_number, comment_label>>
                      ELSE <<comment_label>>
        comment_text == get_comment_text(comment)
        total_media == Len(Get(comment, "photos", <<>>)) + Len(Get(comment, "videos", <<>>))
        media_text == <<"See attached media", total_media,
                        "items">>
    IN  (IF comment_label # "" THEN <<Paragraph(<<label_text>>, "CommentLabel")>> ELSE <<>>)
        \o (IF comment_text # <<>> THEN <<Paragraph(comment_text, "CommentText")>> ELSE <<>>)
        \o (IF total_media > 0 THEN <<Paragraph(<<media_text>>, "MediaReference")>> ELSE <<>>)

CommentFlowables(comment) ==
    LET comment_label == Get(comment, "label", "")
        comment_number == Get(comment, "commentNumber", "")
        label_text == IF comment_number # "" THEN <<comment_number, comment_label>>
                      ELSE <<comment_label>>
        comment_text == get_comment_text(comment)
        total_media == Len(Get(comment, "photos", <<>>)) + Len(Get(comment, "videos", <<>>))
        media_text == <<"See attached media", total_media,
                        IF total_media > 1 THEN "items" ELSE "item">>
    IN  (IF comment_label # "" THEN <<Paragraph(<<label_text>>, "CommentLabel")>> ELSE <<>>)
        \o (IF comment_text # <<>> THEN <<Paragraph(comment_text, "CommentText")>> ELSE <<>>)
        \o (IF total_media > 0 THEN <<Paragraph(<<media_text>>, "MediaReference")>> ELSE <<>>)

RECURSIVE CommentsFlowables(_, _)
CommentsFlowables(sorted_comments, k) ==
    IF k > Len(sorted_comments) THEN <<>>
    ELSE CommentFlowables(sorted_comments[k]) \o CommentsFlowables(sorted_comments, k + 1)

\* Lines 397-446: line_item_content.
LineItemContent(item, item_idx) ==
    LET item_letter == convert_to_letter(item_idx)
        item_name == Get(item, "name", Get(item, "title", ""))
        line_item_header == <<item_letter, item_name>>
        sorted_comments == sorted_by_order(Get(item, "comments", <<>>))
    IN  <<CheckboxMarker(get_inspection_status(item)),
          Paragraph(<<line_item_header>>, "LineItemHeader")>>
        \o CommentsFlowables(sorted_comments, 1)
        \o <<Spacer(1)>>

\* KeepTogether(line_item_content) stores the list it is given: it raises
\* for no list of flowables, so the except branch of line 451 is not taken.
KeepTogetherFails(content) == FALSE

\* A plausible slip: the flowables appended one by one, without KeepTogether.
AppendLineItem_Individually(st, content) == st \o content

\* The height of a flowable in rows: a Paragraph has a row per line, the
\* CheckboxMarker (self.height = 13) one row, a Spacer its height.
RECURSIVE Rows(_)
RowsOfAll(fs) ==
    LET SumFrom[k \in 1..(Len(fs) + 1)] ==
          IF k > Len(fs) THEN 0 ELSE Rows(fs[k]) + SumFrom[k + 1]
    IN  SumFrom[1]

Rows(f) ==
    CASE f.kind = "Paragraph" -> Len(f.lines)
      [] f.kind = "CheckboxMarker" -> 1
      [] f.kind = "Spacer" -> f.height
      [] f.kind = "KeepTogether" -> RowsOfAll(f.content)

\* A plausible slip: "except: pass" for a group taller than the page.
AppendLineItem_DropOversized(st, content) ==
    IF RowsOfAll(content) > PageRows THEN st ELSE Append(st, KeepTogether(content))

\* Lines 448-453.
AppendLineItem(st, content) ==
    IF KeepTogetherFails(content) THEN st \o content
    ELSE Append(st, KeepTogether(content))

RECURSIVE LineItemsStory(_, _, _)
LineItemsStory(st, sorted_line_items, k) ==
    IF k > Len(sorted_line_items) THEN st
    ELSE LineItemsStory(
            AppendLineItem(st, LineItemContent(sorted_line_items[k], k - 1)),
            sorted_line_items, k + 1)

\* Lines 381-390: the section header.
SectionHeader(sec, idx) ==
    LET sn == IF Get(sec, "sectionNumber", <<>>) # <<>> THEN sec["sectionNumber"]
              ELSE convert_to_roman(idx + 1)
        section_name == Upper(Get(sec, "name", <<>>))
    IN  Paragraph(<< <<sn, section_name>> >>, "SectionHeader")

\* Lines 380-456 from the k-th sorted section on.
RECURSIVE SectionsStory(_, _, _)
SectionsStory(st, sorted_sections, k) ==
    IF k > Len(sorted_sections) THEN st
    ELSE LET sec == sorted_sections[k]
             sorted_line_items == sorted_by_order(Get(sec, "lineItems", <<>>))
             withItems == LineItemsStory(Append(st, SectionHeader(sec, k - 1)),
                                         sorted_line_items, 1)
         IN  SectionsStory(Append(withItems, Spacer(2)), sorted_sections, k + 1)

BuildStoryOf(secs) == SectionsStory(<<>>, sorted_by_order(secs), 1)

(***************************************************************************)
(* generate_trec_pdf: the call.                                            *)
(***************************************************************************)
NoneValue == [None |-> TRUE]

\* generate_trec_pdf_from_json lines 489-500: the sections and the metadata
\* handed on to generate_trec_pdf.
SectionsArgument ==
    IF entry = "generate_trec_pdf_from_json" THEN Get(json_data, "sections", <<>>)
    ELSE sections

MetadataArgument ==
    IF entry = "generate_trec_pdf_from_json" /\ metadata = NoneValue
    THEN [reportId |-> Get(json_data, "reportId", Get(json_data, "report_id", "N/A")),
          inspectionDate |-> Get(json_data, "inspectionDate", ""),
          propertyAddress |-> Get(json_data, "propertyAddress", ""),
          inspectorName |-> Get(json_data, "inspectorName", ""),
          inspectorLicense |-> Get(json_data, "inspectorLicense", "")]
    ELSE metadata

\* A plausible slip: no validation.
SectionsRejected_Never(secs) == FALSE

\* Line 346: "if not sections".
SectionsRejected(secs) == secs = <<>>

\* The call with the directory made ahead of the validation.
Validate_AfterMakeDirs ==
    /\ gpc = "called"
    /\ sections' = SectionsArgument
    /\ metadata' = MetadataArgument
    /\ fs_dirs' = IF output_path[1] # "" THEN fs_dirs \cup {output_path[1]} ELSE fs_dirs
    /\ IF SectionsRejected(SectionsArgument)
       THEN raised' = "ValueError" /\ gpc' = "raised"
       ELSE raised' = raised /\ gpc' = "makedirs"
    /\ UNCHANGED <<entry, json_data, output_path, fs_files, story, flowables,
                   rows_left, atTop, result>>
    /\ UNCHANGED <<varsStatus, varsLetter, varsRoman, varsCanvas, varsServer>>

\* The call, and lines 345-347.
Validate ==
    /\ gpc = "called"
    /\ sections' = SectionsArgument
    /\ metadata' = MetadataArgument
    /\ IF SectionsRejected(SectionsArgument)
       THEN raised' = "ValueError" /\ gpc' = "raised"
       ELSE raised' = raised /\ gpc' = "makedirs"
    /\ UNCHANGED <<entry, json_data, output_path, fs_dirs, fs_files, story, flowables,
                   rows_left, atTop, result>>
    /\ UNCHANGED <<varsStatus, varsLetter, varsRoman, varsCanvas, varsServer>>

\* Lines 349-352.
MakeDirs ==
    /\ gpc = "makedirs"
    /\ LET output_dir == output_path[1]
       IN  fs_dirs' = IF output_dir # "" /\ output_dir \notin fs_dirs
                      THEN fs_dirs \cup {output_dir}
                      ELSE fs_dirs
    /\ gpc' = "story"
    /\ UNCHANGED <<entry, json_data, sections, metadata, output_path, fs_files, story,
                   flowables, rows_left, atTop, raised, result>>
    /\ UNCHANGED <<varsStatus, varsLetter, varsRoman, varsCanvas, varsServer>>

\* Lines 354-465: the sorted sections, the report id (metadata.get raises
\* AttributeError on None), the story, and the canvas doc.build creates.
BuildStory ==
    /\ gpc = "story"
    /\ IF metadata = NoneValue
       THEN /\ raised' = "AttributeError"
            /\ gpc' = "raised"
            /\ UNCHANGED <<story, flowables, rows_left, atTop, varsCanvas>>
       ELSE /\ story' = BuildStoryOf(sections)
            /\ flowables' = story'
            /\ rows_left' = PageRows
            /\ atTop' = TRUE
            /\ report_id' = Get(metadata, "reportId", Get(metadata, "report_id", "N/A"))
            /\ pageNumber' = 1
            /\ code' = <<>>
            /\ saved_page_states' = <<>>
            /\ doc_pages' = <<>>
            /\ finished' = <<>>
            /\ cpc' = "open"
            /\ gpc' = "build"
            /\ UNCHANGED raised
    /\ UNCHANGED <<entry, json_data, sections, metadata, output_path, fs_dirs, fs_files,
                   result>>
    /\ UNCHANGED <<varsStatus, varsLetter, varsRoman, varsServer>>

(***************************************************************************)
(* doc.build(story, canvasmaker=create_canvas), line 467: the paginating   *)
(* layout engine, reportlab's platypus.  The frame of a page holds         *)
(* PageRows rows.  Flowables are placed top to bottom.  A KeepTogether     *)
(* that does not fit in what is left of a page already begun breaks the    *)
(* page first; in every case it then hands its content on to be placed     *)
(* flowable by flowable (KeepTogether.split).  A Paragraph that does not   *)
(* fit is split between lines when at least two lines fit (a single line   *)
(* is not left behind); any other flowable that does not fit moves to the  *)
(* next page.  Each page end calls canvas.showPage, the end of the build   *)
(* canvas.save.                                                            *)
(***************************************************************************)
\* The first n lines of a Paragraph, and what is left of it.
SplitParagraph(f, n) ==
    << [f EXCEPT !.lines = SubSeq(f.lines, 1, n)],
       [f EXCEPT !.lines = SubSeq(f.lines, n + 1, Len(f.lines)), !.cont = TRUE] >>

\* The flowable drawn on the page of the canvas.
Place(f) == code' = Append(code, <<"content", f>>)

HandleFlowable ==
    /\ gpc = "build"
    /\ flowables # <<>>
    /\ LET f == Head(flowables)
           rest == Tail(flowables)
       IN  IF f.kind = "KeepTogether"
           THEN /\ flowables' = f.content \o rest
                /\ IF Rows(f) > rows_left /\ ~atTop
                   THEN /\ CanvasShowPage
                        /\ rows_left' = PageRows
                        /\ atTop' = TRUE
                   ELSE UNCHANGED <<rows_left, atTop, report_id, pageNumber, code,
                                    saved_page_states, doc_pages, finished>>
                /\ UNCHANGED <<raised, gpc>>
           ELSE IF Rows(f) <= rows_left
           THEN /\ Place(f)
                /\ flowables' = rest
                /\ rows_left' = rows_left - Rows(f)
                /\ atTop' = FALSE
                /\ UNCHANGED <<report_id, pageNumber, saved_page_states, doc_pages,
                               finished, raised, gpc>>
           ELSE IF f.kind = "Paragraph" /\ rows_left >= 2
           THEN /\ Place(SplitParagraph(f, rows_left)[1])
                /\ flowables' = <<SplitParagraph(f, rows_left)[2]>> \o rest
                /\ rows_left' = 0
                /\ atTop' = FALSE
                /\ UNCHANGED <<report_id, pageNumber, saved_page_states, doc_pages,
                               finished, raised, gpc>>
           ELSE IF atTop
           THEN /\ raised' = "LayoutError"
                /\ gpc' = "raised"
                /\ UNCHANGED <<flowables, rows_left, atTop, report_id, pageNumber, code,
                               saved_page_states, doc_pages, finished>>
           ELSE /\ CanvasShowPage
                /\ rows_left' = PageRows
                /\ atTop' = TRUE
                /\ UNCHANGED <<flowables, raised, gpc>>
    /\ UNCHANGED cpc
    /\ UNCHANGED <<entry, json_data, sections, metadata, output_path, fs_dirs, fs_files,
                   story, result>>
    /\ UNCHANGED <<varsStatus, varsLetter, varsRoman, varsServer>>

\* The story is placed: the page begun is ended.
EndPage ==
    /\ gpc = "build"
    /\ flowables = <<>>
    /\ IF atTop
       THEN UNCHANGED <<report_id, pageNumber, code, saved_page_states, doc_pages, finished>>
       ELSE CanvasShowPage
    /\ gpc' = "save"
    /\ UNCHANGED cpc
    /\ UNCHANGED <<entry, json_data, sections, metadata, output_path, fs_dirs, fs_files,
                   story, flowables, rows_left, atTop, raised, result>>
    /\ UNCHANGED <<varsStatus, varsLetter, varsRoman, varsServer>>

\* canvas.save() writes the file; line 473 returns output_path.
SaveDocument ==
    /\ gpc = "save"
    /\ CanvasSave
    /\ cpc' = "saved"
    /\ fs_files' = fs_files \cup {output_path}
    /\ result' = output_path
    /\ gpc' = "done"
    /\ UNCHANGED <<entry, json_data, sections, metadata, output_path, fs_dirs, story,
                   flowables, rows_left, atTop, raised>>
    /\ UNCHANGED <<varsStatus, varsLetter, varsRoman, varsServer>>

NextGen == Validate \/ MakeDirs \/ BuildStory \/ HandleFlowable \/ EndPage \/ SaveDocument

\* What every specification of generate_trec_pdf starts from.
InitGenCommon ==
    /\ IdleStatus
    /\ IdleLetter
    /\ IdleRoman
    /\ IdleCanvas
    /\ IdleServer
    /\ story = <<>>
    /\ flowables = <<>>
    /\ rows_left = 0
    /\ atTop = TRUE
    /\ raised = "none"
    /\ result = <<>>
    /\ gpc = "called"

(***************************************************************************)
(* The calls with and without sections.                                    *)
(***************************************************************************)
OneSection == << [name |-> <<"a">>, lineItems |-> << [name |-> "roof"] >>] >>

SectionLists == { <<>>, OneSection, << <<>> >> }

Metadatas == { NoneValue, <<>>, [reportId |-> "R-1"], [report_id |-> "R-2"] }

JsonRoots ==
    { <<>>, [reportId |-> "R-3"] }
    \cup { [sections |-> secs] : secs \in SectionLists }
    \cup { [sections |-> secs, report_id |-> "R-4"] : secs \in SectionLists }

OutputPaths == { <<"", "report.pdf">>, <<"generated_files", "report.pdf">> }

InitValidate ==
    /\ InitGenCommon
    /\ entry \in {"generate_trec_pdf", "generate_trec_pdf_from_json"}
    /\ IF entry = "generate_trec_pdf"
       THEN json_data = <<>> /\ sections \in SectionLists
       ELSE json_data \in JsonRoots /\ sections = <<>>
    /\ metadata \in Metadatas
    /\ output_path \in OutputPaths
    /\ fs_dirs \in SUBSET {"generated_files"}
    /\ fs_files \in SUBSET {output_path}

SpecValidate == InitValidate /\ [][NextGen]_vars

(***************************************************************************)
(* C2.  Every call of generate_trec_pdf with an empty sections list fails  *)
(* with a validation error and returns no path, for every metadata and     *)
(* every output path; so does generate_trec_pdf_from_json when the root    *)
(* object has no "sections" key or an empty one.                           *)
(***************************************************************************)
\* The sections the caller handed over are empty or missing.
CalledWithoutSections ==
    \/ entry = "generate_trec_pdf" /\ sections = <<>>
    \/ /\ entry = "generate_trec_pdf_from_json"
       /\ (~Has(json_data, "sections") \/ json_data["sections"] = <<>>)

C2_EmptySectionsRejected ==
    CalledWithoutSections =>
        /\ result = <<>>
        /\ gpc \in {"called", "raised"}
        /\ gpc = "raised" => raised = "ValueError"

\* A root object without "sections" and no metadata: the call has ended in
\* the validation error.
C2_Witness ==
    /\ entry = "generate_trec_pdf_from_json"
    /\ ~Has(json_data, "sections")
    /\ metadata # NoneValue
    /\ gpc = "raised"
    /\ raised = "ValueError"
    /\ result = <<>>

(***************************************************************************)
(* The calls that exercise the layout: one section whose line items carry  *)
(* short comments (a label and a line of text) and long ones (a text of    *)
(* more lines than a page has rows, with a photo).                         *)
(***************************************************************************)
ShortComment == [label |-> "Observation", text |-> <<"&amp;">>]

LongComment == [content |-> [k \in 1..(PageRows + 1) |-> "line"], photos |-> <<"p1">>]

LayoutItems ==
    { [name |-> "item", comments |-> cs] :
        cs \in SeqUpTo({ShortComment, LongComment}, MaxLayoutComments) }

LayoutSections ==
    { << [name |-> <<"a">>, lineItems |-> items] >> :
        items \in SeqUpTo(LayoutItems, MaxLayoutItems) \ {<<>>} }

InitLayout ==
    /\ InitGenCommon
    /\ entry = "generate_trec_pdf"
    /\ json_data = <<>>
    /\ sections \in LayoutSections
    /\ metadata = [reportId |-> "R-1"]
    /\ output_path = <<"generated_files", "report.pdf">>
    /\ fs_dirs = {}
    /\ fs_files = {}

SpecLayout == InitLayout /\ [][NextGen]_vars

\* The pages so far: those of the document once it is saved, before that
\* the pages ended and the page being filled.
ContentOf(ops) == SelectSeq(ops, LAMBDA o : o[1] = "content")

Pages ==
    IF cpc = "saved" THEN [n \in 1..Len(doc_pages) |-> ContentOf(doc_pages[n])]
    ELSE finished \o <<code>>

\* Every flowable placed, in order, with the number of its page.
RECURSIVE PlacedFrom(_, _)
PlacedFrom(pages, n) ==
    IF n > Len(pages) THEN <<>>
    ELSE [k \in 1..Len(pages[n]) |-> [page |-> n, f |-> pages[n][k][2]]]
         \o PlacedFrom(pages, n + 1)

Placed == PlacedFrom(Pages, 1)

\* A line item's blocks run from its checkbox marker to its spacer of a
\* tenth of an inch: the index of that spacer, 0 while it is not placed.
GroupEnd(P, a) ==
    LET ends == {b \in a..Len(P) : P[b].f.kind = "Spacer" /\ P[b].f.height = 1}
    IN  IF ends = {} THEN 0 ELSE CHOOSE b \in ends : \A c \in ends : b <= c

RowsBetween(P, a, b) == RowsOfAll([k \in 1..(b - a + 1) |-> P[a + k - 1].f])

RowsOnPage(P, n) ==
    LET on == SelectSeq(P, LAMBDA x : x.page = n)
    IN  RowsOfAll([k \in 1..Len(on) |-> on[k].f])

(***************************************************************************)
(* C4.  Whenever the blocks of one line item (marker, heading, labels,     *)
(* bodies, media notes, trailing spacer) together fit the content height   *)
(* of an empty page, they are all placed on the same page: the page break  *)
(* is made before the group, never between two of its blocks.              *)
(***************************************************************************)
C4_KeepTogether ==
    gpc \in {"build", "save", "done"} =>
        \A a \in 1..Len(Placed) :
            (/\ Placed[a].f.kind = "CheckboxMarker"
             /\ GroupEnd(Placed, a) # 0
             /\ RowsBetween(Placed, a, GroupEnd(Placed, a)) <= PageRows)
            => \A j \in a..GroupEnd(Placed, a) : Placed[j].page = Placed[a].page

\* A group that fits a page but not what was left of the page before it:
\* it begins the next page and is whole there.
C4_Witness ==
    /\ gpc = "done"
    /\ \E a \in 2..Len(Placed) :
          /\ Placed[a].f.kind = "CheckboxMarker"
          /\ GroupEnd(Placed, a) # 0
          /\ Placed[a].page = Placed[a - 1].page + 1
          /\ RowsBetween(Placed, a, GroupEnd(Placed, a)) <= PageRows
          /\ RowsOnPage(Placed, Placed[a - 1].page) < PageRows
          /\ RowsOnPage(Placed, Placed[a - 1].page)
                + RowsBetween(Placed, a, GroupEnd(Placed, a)) > PageRows
          /\ Placed[GroupEnd(Placed, a)].page = Placed[a].page

(***************************************************************************)
(* C5.  For a line item whose group of blocks is taller than a page,       *)
(* generation does not fail and every block of the item (marker, heading,  *)
(* each label, body and media note) is placed on some page, in document    *)
(* order, none omitted or truncated.                                       *)
(***************************************************************************)
\* The story with every KeepTogether replaced by its content.
RECURSIVE FlatStory(_)
FlatStory(st) ==
    IF st = <<>> THEN <<>>
    ELSE (IF Head(st).kind = "KeepTogether" THEN Head(st).content ELSE <<Head(st)>>)
         \o FlatStory(Tail(st))

\* The placed flowables with the parts of a split Paragraph joined again.
RECURSIVE JoinParts(_)
JoinParts(fs) ==
    IF fs = <<>> THEN <<>>
    ELSE LET before == JoinParts(SubSeq(fs, 1, Len(fs) - 1))
             f == fs[Len(fs)]
         IN  IF f.kind = "Paragraph" /\ f.cont /\ before # <<>>
             THEN [before EXCEPT ![Len(before)].lines = @ \o f.lines]
             ELSE Append(before, f)

PlacedFlowables == [k \in 1..Len(Placed) |-> Placed[k].f]

\* The blocks a comment calls for: a label, a body, a media note.
CommentBlocks(c) ==
    (IF Has(c, "label") /\ c["label"] # "" THEN 1 ELSE 0)
    + (IF \E fld \in {"text", "content", "commentText", "value"} :
             Has(c, fld) /\ Len(c[fld]) > 0 THEN 1 ELSE 0)
    + (IF (IF Has(c, "photos") THEN Len(c["photos"]) ELSE 0)
          + (IF Has(c, "videos") THEN Len(c["videos"]) ELSE 0) > 0 THEN 1 ELSE 0)

SumOver(sq, F(_)) ==
    LET Part[k \in 0..Len(sq)] == IF k = 0 THEN 0 ELSE Part[k - 1] + F(sq[k])
    IN  Part[Len(sq)]

\* Marker, heading and spacer, and the blocks of the comments.
ItemBlocks(item) ==
    3 + (IF Has(item, "comments") THEN SumOver(item["comments"], CommentBlocks) ELSE 0)

\* The section header and spacer, and the blocks of the line items.
SectionBlocks(sec) ==
    2 + (IF Has(sec, "lineItems") THEN SumOver(sec["lineItems"], ItemBlocks) ELSE 0)

\* Some line item's group is taller than a page.
HasOversizedGroup ==
    \E k \in 1..Len(story) : story[k].kind = "KeepTogether" /\ Rows(story[k]) > PageRows

C5_OversizedPlaced ==
    /\ raised # "LayoutError"
    /\ gpc = "done" =>
          /\ raised = "none"
          /\ Len(JoinParts(PlacedFlowables)) = SumOver(sections, SectionBlocks)
          /\ JoinParts(PlacedFlowables) = FlatStory(story)

\* An oversized group placed: its paragraph was split over pages.
C5_Witness ==
    /\ gpc = "done"
    /\ HasOversizedGroup
    /\ Len(doc_pages) >= 3
    /\ \E k \in 1..Len(Placed) : Placed[k].f.kind = "Paragraph" /\ Placed[k].f.cont

(***************************************************************************)
(* The calls that exercise the ordering: sections, the line items of one   *)
(* of them and the comments of one of those, MaxOrderTotal elements in     *)
(* all.  Each element is named after its place in the input; its order key *)
(* is missing, 0 or 1.  A comment has a label or nothing at all.           *)
(***************************************************************************)
SectionNames == << <<"a">>, <<"b">>, <<"c">>, <<"a", "a">>, <<"a", "b">>, <<"a", "c">>,
                   <<"b", "a">>, <<"b", "b">> >>

ItemNames == <<"i1", "i2", "i3", "i4", "i5", "i6", "i7", "i8">>

LabelNames == <<"c1", "c2", "c3", "c4", "c5", "c6", "c7", "c8">>

\* The dict d with the order key the choice stands for: none, 0 or 1.
WithOrder(d, choice) == IF choice = 0 THEN d ELSE d @@ ("order" :> (choice - 1))

OrderComments(nc) ==
    { [k \in 1..nc |->
          WithOrder(IF labelled[k] THEN [label |-> LabelNames[k]] ELSE <<>>, ord[k])] :
        ord \in [1..nc -> 0..2], labelled \in [1..nc -> BOOLEAN] }

OrderItems(ni, nc) ==
    { [k \in 1..ni |->
          WithOrder(IF k = host /\ nc > 0
                    THEN [name |-> ItemNames[k], comments |-> cs]
                    ELSE [name |-> ItemNames[k]], ord[k])] :
        ord \in [1..ni -> 0..2], host \in 1..ni, cs \in OrderComments(nc) }

OrderSectionsOf(ns, ni, nc) ==
    { [k \in 1..ns |->
          WithOrder(IF k = host /\ ni > 0
                    THEN [name |-> SectionNames[k], lineItems |-> items]
                    ELSE [name |-> SectionNames[k]], ord[k])] :
        ord \in [1..ns -> 0..2], host \in 1..ns,
        items \in (IF ni > 0 THEN OrderItems(ni, nc) ELSE {<<>>}) }

InitOrder ==
    /\ InitGenCommon
    /\ entry = "generate_trec_pdf"
    /\ json_data = <<>>
    /\ \E ns \in 1..MaxOrderTotal :
         \E ni \in 0..(MaxOrderTotal - ns) :
           \E nc \in 0..(IF ni > 0 THEN MaxOrderTotal - ns - ni ELSE 0) :
             sections \in OrderSectionsOf(ns, ni, nc)
    /\ metadata = [reportId |-> "R-1"]
    /\ output_path = <<"generated_files", "report.pdf">>
    /\ fs_dirs = {}
    /\ fs_files = {}

SpecOrder == InitOrder /\ [][NextGen]_vars

(***************************************************************************)
(* C6.  The emitted block sequence lists sections in ascending order of    *)
(* their order key (a missing key counts as 0), line items in ascending    *)
(* order within each section and comments in ascending order within each   *)
(* line item; elements with equal keys keep their input order.  As         *)
(* amended: every section and line item appears exactly once, and so does  *)
(* every comment that has a label, text or media; a comment with none of   *)
(* them contributes no block.                                              *)
(***************************************************************************)
KeyOf(x) == IF Has(x, "order") THEN x["order"] ELSE 0

\* The indices of the blocks of a style, ascending.
StyleIndices(bs, style) ==
    SelectSeq([k \in 1..Len(bs) |-> k],
              LAMBDA k : bs[k].kind = "Paragraph" /\ bs[k].style = style)

\* The blocks behind the n-th block of the style, up to the next of them.
SegmentAfter(bs, style, n) ==
    LET idx == StyleIndices(bs, style)
    IN  SubSeq(bs, idx[n] + 1, IF n < Len(idx) THEN idx[n + 1] - 1 ELSE Len(bs))

\* The names out are those of the elements of inp that appear, each once,
\* in ascending order of key, equal keys in input order.
StableAscending(out, inp, Name(_), Appears(_)) ==
    LET shown == {j \in 1..Len(inp) : Appears(inp[j])}
        Pos(k) == CHOOSE j \in shown : Name(inp[j]) = out[k]
    IN  /\ Len(out) = Cardinality(shown)
        /\ \A k \in 1..Len(out) : \E j \in shown : Name(inp[j]) = out[k]
        /\ \A j \in shown : Cardinality({k \in 1..Len(out) : out[k] = Name(inp[j])}) = 1
        /\ \A k, l \in 1..Len(out) :
              k < l => \/ KeyOf(inp[Pos(k)]) < KeyOf(inp[Pos(l)])
                       \/ (KeyOf(inp[Pos(k)]) = KeyOf(inp[Pos(l)]) /\ Pos(k) < Pos(l))

\* The second part of the one line of a header: the name behind the number.
HeaderName(b) == b.lines[1][2]

NamesOf(bs, style) ==
    LET idx == StyleIndices(bs, style) IN [k \in 1..Len(idx) |-> HeaderName(bs[idx[k]])]

LabelsOf(bs) ==
    LET idx == StyleIndices(bs, "CommentLabel") IN [k \in 1..Len(idx) |-> bs[idx[k]].lines[1][1]]

HasBlocks(c) == CommentBlocks(c) > 0

Always(x) == TRUE

\* The comments of the line items of a section are in order, those that
\* Shown lets expect a block for.
CommentsInOrder(seg, items, Shown(_)) ==
    \A m \in 1..Len(StyleIndices(seg, "LineItemHeader")) :
        LET item == items[CHOOSE j \in 1..Len(items) :
                            items[j]["name"] = NamesOf(seg, "LineItemHeader")[m]]
            comments == Get(item, "comments", <<>>)
        IN  StableAscending(LabelsOf(SegmentAfter(seg, "LineItemHeader", m)),
                            comments, LAMBDA c : Get(c, "label", ""), Shown)

ElementsInOrder(bs, Shown(_)) ==
    /\ StableAscending(NamesOf(bs, "SectionHeader"), sections,
                       LAMBDA x : Upper(x["name"]), Always)
    /\ \A n \in 1..Len(StyleIndices(bs, "SectionHeader")) :
          LET sec == sections[CHOOSE j \in 1..Len(sections) :
                        Upper(sections[j]["name"]) = NamesOf(bs, "SectionHeader")[n]]
              items == Get(sec, "lineItems", <<>>)
              seg == SegmentAfter(bs, "SectionHeader", n)
          IN  /\ StableAscending(NamesOf(seg, "LineItemHeader"), items,
                                 LAMBDA x : x["name"], Always)
              /\ CommentsInOrder(seg, items, Shown)

StoryBuilt == gpc \in {"build", "save", "done"}

MediaList(n, x) == [k \in 1..n |-> x]

MediaComments(nc) ==
    { [k \in 1..nc |-> [label |-> LabelNames[k],
                        photos |-> MediaList(np[k], "photo"),
                        videos |-> MediaList(nv[k], "video")]] :
        np \in [1..nc -> 0..MaxMedia], nv \in [1..nc -> 0..MaxMedia] }

InitMedia ==
    /\ InitGenCommon
    /\ entry = "generate_trec_pdf"
    /\ json_data = <<>>
    /\ \E nc \in 1..MaxMediaComments :
         \E cs \in MediaComments(nc) :
           sections = << [name |-> <<"a">>,
                          lineItems |-> << [name |-> "i1", comments |-> cs] >>] >>
    /\ metadata = [reportId |-> "R-1"]
    /\ output_path = <<"generated_files", "report.pdf">>
    /\ fs_dirs = {}
    /\ fs_files = {}

SpecMedia == InitMedia /\ [][NextGen]_vars

(***************************************************************************)
(* C11.  For every comment, with n the number of its photos plus the       *)
(* number of its videos: no media note is emitted when n = 0; exactly one  *)
(* is emitted and reads "1 item" when n = 1; exactly one is emitted and    *)
(* reads "n items" when n >= 2.                                            *)
(***************************************************************************)
MediaCount(c) == Len(c["photos"]) + Len(c["videos"])

\* The media notes among the blocks of the k-th comment.
MediaNotesOf(bs, k) ==
    LET seg == SegmentAfter(bs, "CommentLabel", k)
        idx == StyleIndices(seg, "MediaReference")
    IN  [j \in 1..Len(idx) |-> seg[idx[j]].lines]

MediaNoteReads(n) ==
    << <<"See attached media", n, IF n = 1 THEN "item" ELSE "items">> >>

InputComments == sections[1]["lineItems"][1]["comments"]

C11_MediaNote ==
    StoryBuilt =>
        /\ Len(StyleIndices(FlatStory(story), "CommentLabel")) = Len(InputComments)
        /\ \A k \in 1..Len(InputComments) :
              LET n == MediaCount(InputComments[k])
                  notes == MediaNotesOf(FlatStory(story), k)
              IN  IF n = 0 THEN notes = <<>> ELSE notes = <<MediaNoteReads(n)>>

\* A finished document with one attachment on the first comment and two on
\* the second: "1 item", then "2 items".
C11_Witness ==
    /\ gpc = "done"
    /\ Len(InputComments) = 2
    /\ MediaCount(InputComments[1]) = 1
    /\ MediaCount(InputComments[2]) = 2
    /\ Len(InputComments[2]["photos"]) = 1
    /\ MediaNotesOf(FlatStory(story), 1) = << << <<"See attached media", 1, "item">> >> >>
    /\ MediaNotesOf(FlatStory(story), 2) = << << <<"See attached media", 2, "items">> >> >>

(***************************************************************************)
(* Where a placed flowable stands on its page: the rows taken by the       *)
(* flowables placed above it on that page.  A CheckboxMarker draws its     *)
(* boxes inside its own rows (draw, lines 275-296, works from the origin   *)
(* of the flowable), a Paragraph its text inside its own.                  *)
(***************************************************************************)
TopOf(P, a) ==
    LET above == {b \in 1..(a - 1) : P[b].page = P[a].page}
        Part[k \in 0..(a - 1)] ==
            IF k = 0 THEN 0
            ELSE Part[k - 1] + (IF k \in above THEN Rows(P[k].f) ELSE 0)
    IN  Part[a - 1]

IsMarker(P, a) == P[a].f.kind = "CheckboxMarker"

\* The heading a placed marker belongs to is the flowable placed next.
HeadingPlaced(P, a) ==
    /\ a + 1 <= Len(P)
    /\ P[a + 1].f.kind = "Paragraph"
    /\ P[a + 1].f.style = "LineItemHeader"

\* No page break between a marker and its heading.
MarkerWithHeading ==
    \A a \in 1..Len(Placed) :
        (IsMarker(Placed, a) /\ a + 1 <= Len(Placed))
        => /\ HeadingPlaced(Placed, a)
           /\ Placed[a + 1].page = Placed[a].page

\* The boxes of a marker stand level with its heading.
MarkerLevelWithHeading ==
    \A a \in 1..Len(Placed) :
        (IsMarker(Placed, a) /\ HeadingPlaced(Placed, a))
        => TopOf(Placed, a + 1) = TopOf(Placed, a)

(***************************************************************************)
(* C12.  For every line item and in every layout, the oversized one        *)
(* included, the row of four checkboxes is drawn on the page of the line   *)
(* item's heading and at the heading's vertical position.                  *)
(***************************************************************************)
C12_MarkerAtHeading == StoryBuilt => (MarkerWithHeading /\ MarkerLevelWithHeading)

\* The part of it about the page alone.
MarkerOnHeadingPage == StoryBuilt => MarkerWithHeading

(***************************************************************************)
(* C13.  A call of generate_trec_pdf that is rejected because sections is  *)
(* empty has no filesystem effect: no step of it creates the destination   *)
(* directory, and none creates or overwrites the output file.              *)
(***************************************************************************)
C13_RejectedNoFilesystemEffect ==
    [][CalledWithoutSections => (fs_dirs' = fs_dirs /\ fs_files' = fs_files)]_vars

\* A rejected call whose destination directory did not exist: it still does
\* not, and there is no output file.
C13_Witness ==
    /\ CalledWithoutSections
    /\ gpc = "raised"
    /\ raised = "ValueError"
    /\ output_path[1] = "generated_files"
    /\ "generated_files" \notin fs_dirs
    /\ fs_files = {}

====
